---- MODULE Spec2Model ----
(***************************************************************************)
(* Model of the phi CLI workspace operator (src/phi/cli/operator.py:       *)
(* start_resources, stop_resources, patch_resources) and of the            *)
(* conversation event logger (src/phi/api/conversation.py:                 *)
(* log_conversation_event).                                                *)
(***************************************************************************)
EXTENDS Integers, Sequences, FiniteSets, TLC

\* ---------------------------------------------------------------- bounds
\* Largest number of configs a workspace file declares.
MaxConfigs == 2
\* Largest number of log_conversation_event calls in one behaviour.
MaxCalls == 2
\* Number of distinct conversation events a caller may log.
MaxEvents == 2

\* ------------------------------------------------------------- constants
\* Python's None.
None == "None"

\* The classes tested by the isinstance chain, in the order of the chain.
AdapterClasses == <<"DockerConfig", "K8sConfig", "AwsConfig">>

\* Classes a workspace config may have: the three with an adapter, and any
\* other InfraConfig (the declared element type of the filtered list).
ConfigClasses == {"DockerConfig", "K8sConfig", "AwsConfig", "InfraConfig"}

\* The three operations: start_resources, stop_resources, patch_resources.
Operations == {"start", "stop", "patch"}

\* The verb of the adapter functions each operation imports.
AdapterVerb(o) ==
    CASE o = "start" -> "deploy"
      [] o = "stop" -> "shutdown"
      [] o = "patch" -> "patch"

Envs == {"dev", "prd"}

\* The names configs are declared under, by position in the workspace file.
Names == <<"a", "b", "c", "d">>

ConfigNames == { Names[i] : i \in 1..MaxConfigs }

\* A workspace file declares a list of configs; name is the identity of a
\* config inside its workspace.
IsWorkspace(s) == \A i \in 1..Len(s) : s[i].name = Names[i]

Workspaces ==
    { s \in UNION { [1..n -> [name : ConfigNames, cls : ConfigClasses, env : Envs]]
                    : n \in 0..MaxConfigs } : IsWorkspace(s) }

TargetEnvs == Envs \cup {None}
TargetConfigs == ConfigNames \cup {None}

\* The resource filters (target_name, target_type, target_group) a caller
\* may give: none, or all three.
ResourceFilters == { <<None, None, None>>, <<"name", "type", "group">> }

\* The conversation events a caller may log.
Events == { Names[i] : i \in 1..MaxEvents }

\* No call of log_conversation_event is in progress.
NoEvent == "no_event"

\* What the server may answer: a status that invalid_response accepts or
\* rejects, and a body that is not JSON, JSON null, JSON that fails the
\* schema, or JSON that validates.
Responses == [invalid : BOOLEAN, body : {"not_json", "null", "bad_schema", "valid"}]

\* No Response was received.
NoResponse == [invalid |-> TRUE, body |-> "no_response"]

\* ----------------------------------------------------------------- state
VARIABLES
    ws,                     \* the configs declared by the workspace file
    file_exists,            \* resources_file_path.exists()
    op,                     \* the operation running, None when idle
    target_env,             \* arguments of the running operation
    target_config,
    dry_run,
    target_name,            \* resource filters and mode of the running
    target_type,            \* operation, handed to every adapter call
    target_group,
    auto_confirm,
    pc,                     \* position of the running operation
    ws_loaded,              \* WorkspaceConfig.from_file was called
    env_set,                \* ws_config.set_local_env was called
    filter_ran,             \* filter_and_prep_configs was called
    configs,                \* configs_to_deploy / _shutdown / _patch
    num_configs_to_deploy,  \* num_configs_to_deploy / _shutdown / _patch
    num_configs_deployed,   \* num_configs_deployed / _shutdown / _patched
    idx,                    \* position of the for loop in configs
    chk,                    \* next isinstance test of the loop body (1..3)
    trace,                  \* the adapter calls made, with their outcomes
    out,                    \* messages printed or logged at error level
    api_enabled,            \* phi_cli_settings.api_enabled
    conv_pc,                \* position of log_conversation_event
    event,                  \* the conversation argument of the call
    client_open,            \* the api.Client context is entered
    requests,               \* the POST requests sent so far
    r,                      \* the Response of the POST
    conv_ret,               \* the value returned to the caller
    n_calls                 \* calls of log_conversation_event finished

vars == <<ws, file_exists, op, target_env, target_config, dry_run,
          target_name, target_type, target_group, auto_confirm, pc,
          ws_loaded, env_set, filter_ran, configs, num_configs_to_deploy,
          num_configs_deployed, idx, chk, trace, out,
          api_enabled, conv_pc, event, client_open, requests, r, conv_ret,
          n_calls>>

opVars == <<ws, file_exists, op, target_env, target_config, dry_run,
            target_name, target_type, target_group, auto_confirm, pc,
            ws_loaded, env_set, filter_ran, configs, num_configs_to_deploy,
            num_configs_deployed, idx, chk, trace, out>>

convVars == <<api_enabled, conv_pc, event, client_open, requests, r,
              conv_ret, n_calls>>

\* --------------------------------------------------------------- helpers
Reverse(s) == [i \in 1..Len(s) |-> s[Len(s) + 1 - i]]

Min(S) == CHOOSE x \in S : \A y \in S : x <= y

\* ConfigFilter.prepare: the configs of the workspace that match the
\* selection, in declaration order for "create" and reversed for "delete".
filter_and_prep_configs(w, te, tc, order) ==
    LET Keep(c) == /\ (te = None \/ c.env = te)
                   /\ (tc = None \/ c.name = tc)
        sel == SelectSeq(w, Keep)
    IN  IF order = "create" THEN sel ELSE Reverse(sel)

\* The order argument each operation passes to filter_and_prep_configs.
FilterOrder(o) ==
    CASE o = "start" -> "create"
      [] o = "stop" -> "create"
      [] o = "patch" -> "create"

\* isinstance as it would answer were K8sConfig a subclass of DockerConfig.
isinstance_k8s_under_docker(config, cls) ==
    \/ config.cls = cls
    \/ cls = "InfraConfig"
    \/ (config.cls = "K8sConfig" /\ cls = "DockerConfig")

\* isinstance with the subclass test inverted: a plain InfraConfig passes
\* every test.
isinstance_inverted(config, cls) == config.cls = cls \/ config.cls = "InfraConfig"

\* isinstance(config, cls): the config's class is cls or a subclass of it;
\* DockerConfig, K8sConfig and AwsConfig are sibling subclasses of
\* InfraConfig.
isinstance(config, cls) == config.cls = cls \/ cls = "InfraConfig"

\* The first isinstance test of the loop body, from test k on, that the
\* config passes; 0 when none of the remaining tests passes.
NextMatch(config, k) ==
    LET S == { j \in k..Len(AdapterClasses) : isinstance(config, AdapterClasses[j]) }
    IN  IF S = {} THEN 0 ELSE Min(S)

\* The existence check left out.
FileMissing_unchecked == FALSE

\* The adapter functions with the shutdown call of the K8s branch left as
\* the deploy call it was copied from.
AdapterFunction_copied(o, k) ==
    IF o = "stop" /\ k = 2
    THEN "deploy_k8s_config"
    ELSE CASE o = "start" ->
                <<"deploy_docker_config", "deploy_k8s_config", "deploy_aws_config">>[k]
           [] o = "stop" ->
                <<"shutdown_docker_config", "shutdown_k8s_config", "shutdown_aws_config">>[k]
           [] o = "patch" ->
                <<"patch_docker_config", "patch_k8s_config", "patch_aws_config">>[k]

\* The function called in the branch of the k-th isinstance test of
\* operation o.
AdapterFunction(o, k) ==
    CASE o = "start" ->
           <<"deploy_docker_config", "deploy_k8s_config", "deploy_aws_config">>[k]
      [] o = "stop" ->
           <<"shutdown_docker_config", "shutdown_k8s_config", "shutdown_aws_config">>[k]
      [] o = "patch" ->
           <<"patch_docker_config", "patch_k8s_config", "patch_aws_config">>[k]

\* The keyword arguments of an adapter call with two filters exchanged.
AdapterArgs_swapped(tn, tt, tg, dry, ac) ==
    [name_filter |-> tt, type_filter |-> tn, app_filter |-> tg,
     dry_run |-> dry, auto_confirm |-> ac]

\* The keyword arguments every adapter call passes besides config.
AdapterArgs(tn, tt, tg, dry, ac) ==
    [name_filter |-> tn, type_filter |-> tt, app_filter |-> tg,
     dry_run |-> dry, auto_confirm |-> ac]

\* resources_file_path.exists() is false: the operation returns early.
FileMissing == ~file_exists

\* The counter after an adapter call returned.
Increment(n) == n + 1

\* The loop not advancing past the config it just handled.
NextConfigIndex_stuck(i) == i

\* The loop position after the body ran for configs[i].
NextConfigIndex(i) == i + 1

\* The banner printed without looking at dry_run.
Summary_ignores_dry_run(to_deploy, deployed, dry) ==
    <<"SUMMARY">> \o
    (IF to_deploy = deployed THEN <<"SUCCESS">> ELSE <<"FAILED">>)

\* The else branch left out.
Summary_without_else(to_deploy, deployed, dry) ==
    <<"SUMMARY">> \o
    (IF to_deploy = deployed /\ ~dry THEN <<"SUCCESS">> ELSE <<>>)

\* Success requiring that something was deployed.
Summary_needs_work(to_deploy, deployed, dry) ==
    <<"SUMMARY">> \o
    (IF to_deploy = deployed /\ deployed > 0
     THEN (IF ~dry THEN <<"SUCCESS">> ELSE <<>>)
     ELSE <<"FAILED">>)

\* The lines after the loop: the summary, then the success banner or the
\* failure message.
Summary(to_deploy, deployed, dry) ==
    <<"SUMMARY">> \o
    (IF to_deploy = deployed
     THEN (IF ~dry THEN <<"SUCCESS">> ELSE <<>>)
     ELSE <<"FAILED">>)

\* ------------------------------------------------------------------ Init
ConvIdle ==
    /\ conv_pc = "idle"
    /\ event = NoEvent
    /\ client_open = FALSE
    /\ requests = <<>>
    /\ r = NoResponse
    /\ conv_ret = None
    /\ n_calls = 0

OpIdle ==
    /\ op = None
    /\ target_env = None
    /\ target_config = None
    /\ dry_run = FALSE
    /\ target_name = None
    /\ target_type = None
    /\ target_group = None
    /\ auto_confirm = FALSE
    /\ pc = "idle"
    /\ ws_loaded = FALSE
    /\ env_set = FALSE
    /\ filter_ran = FALSE
    /\ configs = <<>>
    /\ num_configs_to_deploy = 0
    /\ num_configs_deployed = 0
    /\ idx = 0
    /\ chk = 0
    /\ trace = <<>>
    /\ out = <<>>

Init ==
    /\ ws \in Workspaces
    /\ file_exists \in BOOLEAN
    /\ OpIdle
    /\ api_enabled = FALSE
    /\ ConvIdle

\* ------------------------------------------------- the three operations
\* start_resources / stop_resources / patch_resources up to the loop: the
\* existence check, the load, set_local_env, the filter and the counters.
Begin(o, te, tc, rf, dry, ac) ==
    /\ pc = "idle"
    /\ op' = o
    /\ target_env' = te
    /\ target_config' = tc
    /\ target_name' = rf[1]
    /\ target_type' = rf[2]
    /\ target_group' = rf[3]
    /\ dry_run' = dry
    /\ auto_confirm' = ac
    /\ IF FileMissing
       THEN /\ out' = Append(out, "FILE_DOES_NOT_EXIST")
            /\ pc' = "returned"
            /\ UNCHANGED <<ws_loaded, env_set, filter_ran, configs,
                           num_configs_to_deploy, num_configs_deployed,
                           idx, chk>>
       ELSE /\ ws_loaded' = TRUE
            /\ env_set' = TRUE
            /\ filter_ran' = TRUE
            /\ configs' = filter_and_prep_configs(ws, te, tc, FilterOrder(o))
            /\ num_configs_to_deploy' = Len(configs')
            /\ num_configs_deployed' = 0
            /\ idx' = 1
            /\ chk' = 1
            /\ pc' = "loop"
            /\ UNCHANGED out
    /\ UNCHANGED <<ws, file_exists, trace>>
    /\ UNCHANGED convVars

\* The loop body reaches an isinstance test the config passes and calls the
\* adapter function of the operation for that class.
CallAdapter ==
    /\ pc = "loop"
    /\ idx <= Len(configs)
    /\ NextMatch(configs[idx], chk) # 0
    /\ chk' = NextMatch(configs[idx], chk)
    /\ trace' = Append(trace, [ev |-> "call",
                               fn |-> <<AdapterVerb(op), AdapterClasses[chk']>>,
                               callee |-> AdapterFunction(op, chk'),
                               args |-> AdapterArgs(target_name, target_type,
                                                    target_group, dry_run,
                                                    auto_confirm),
                               config |-> configs[idx].name,
                               idx |-> idx])
    /\ pc' = "call"
    /\ UNCHANGED <<ws, file_exists, op, target_env, target_config, dry_run,
                   target_name, target_type, target_group, auto_confirm,
                   ws_loaded, env_set, filter_ran, configs,
                   num_configs_to_deploy, num_configs_deployed, idx, out>>
    /\ UNCHANGED convVars

\* The adapter function returns: the counter is incremented and the loop
\* body goes on with the next isinstance test.
AdapterReturns ==
    /\ pc = "call"
    /\ trace' = Append(trace, [ev |-> "return",
                               fn |-> trace[Len(trace)].fn,
                               config |-> configs[idx].name,
                               idx |-> idx])
    /\ num_configs_deployed' = Increment(num_configs_deployed)
    /\ chk' = chk + 1
    /\ pc' = "loop"
    /\ UNCHANGED <<ws, file_exists, op, target_env, target_config, dry_run,
                   target_name, target_type, target_group, auto_confirm,
                   ws_loaded, env_set, filter_ran, configs,
                   num_configs_to_deploy, idx, out>>
    /\ UNCHANGED convVars

\* The adapter function raises: nothing in the operation catches it, so it
\* leaves the operation.
AdapterRaises ==
    /\ pc = "call"
    /\ trace' = Append(trace, [ev |-> "raise",
                               fn |-> trace[Len(trace)].fn,
                               config |-> configs[idx].name,
                               idx |-> idx])
    /\ pc' = "raised"
    /\ UNCHANGED <<ws, file_exists, op, target_env, target_config, dry_run,
                   target_name, target_type, target_group, auto_confirm,
                   ws_loaded, env_set, filter_ran, configs,
                   num_configs_to_deploy, num_configs_deployed, idx, chk, out>>
    /\ UNCHANGED convVars

\* No remaining isinstance test passes: the separator line is printed and
\* the loop moves to the next config.
NextConfig ==
    /\ pc = "loop"
    /\ idx <= Len(configs)
    /\ NextMatch(configs[idx], chk) = 0
    /\ idx' = NextConfigIndex(idx)
    /\ chk' = 1
    /\ UNCHANGED <<ws, file_exists, op, target_env, target_config, dry_run,
                   target_name, target_type, target_group, auto_confirm,
                   pc, ws_loaded, env_set, filter_ran, configs,
                   num_configs_to_deploy, num_configs_deployed, trace, out>>
    /\ UNCHANGED convVars

\* The loop is over: summary line, then success banner or failure message.
Finish ==
    /\ pc = "loop"
    /\ idx > Len(configs)
    /\ out' = out \o Summary(num_configs_to_deploy, num_configs_deployed, dry_run)
    /\ pc' = "returned"
    /\ UNCHANGED <<ws, file_exists, op, target_env, target_config, dry_run,
                   target_name, target_type, target_group, auto_confirm,
                   ws_loaded, env_set, filter_ran, configs,
                   num_configs_to_deploy, num_configs_deployed, idx, chk, trace>>
    /\ UNCHANGED convVars

start_resources ==
    \E te \in TargetEnvs, tc \in TargetConfigs, rf \in ResourceFilters,
       dry \in BOOLEAN, ac \in BOOLEAN :
        Begin("start", te, tc, rf, dry, ac)

stop_resources ==
    \E te \in TargetEnvs, tc \in TargetConfigs, rf \in ResourceFilters,
       dry \in BOOLEAN, ac \in BOOLEAN :
        Begin("stop", te, tc, rf, dry, ac)

patch_resources ==
    \E te \in TargetEnvs, tc \in TargetConfigs, rf \in ResourceFilters,
       dry \in BOOLEAN, ac \in BOOLEAN :
        Begin("patch", te, tc, rf, dry, ac)

Next ==
    \/ start_resources
    \/ stop_resources
    \/ patch_resources
    \/ CallAdapter
    \/ AdapterReturns
    \/ AdapterRaises
    \/ NextConfig
    \/ Finish

Spec == Init /\ [][Next]_vars

\* ------------------------------------------------- claims on operations
\* The run reached the lines after the loop and returned.
RunEnded == pc = "returned" /\ filter_ran

Printed(m) == \E i \in 1..Len(out) : out[i] = m

\* The config has one of the three classes an adapter exists for.
Registered(c) == c.cls \in {"DockerConfig", "K8sConfig", "AwsConfig"}

EventsOf(kind) == { j \in 1..Len(trace) : trace[j].ev = kind }

\* The names of the configs handed to an adapter, in call order.
DispatchOrder ==
    LET IsCall(e) == e.ev = "call"
        calls == SelectSeq(trace, IsCall)
    IN  [j \in 1..Len(calls) |-> calls[j].config]

\* The names of the configs start_resources hands to an adapter for a
\* workspace and a selection.
DeployOrder(w, te, tc) ==
    LET sel == SelectSeq(filter_and_prep_configs(w, te, tc, FilterOrder("start")),
                         Registered)
    IN  [j \in 1..Len(sel) |-> sel[j].name]

\* C1: when an adapter call fails, the failure does not leave the
\* operation, every later config with an adapter is still dispatched, and
\* the run ends with completed < attempted.
C1_FailureTolerated ==
    EventsOf("raise") # {} =>
        /\ pc # "raised"
        /\ RunEnded =>
            /\ num_configs_deployed < num_configs_to_deploy
            /\ \A i \in 1..Len(configs) : Registered(configs[i]) =>
                   \E j \in EventsOf("call") : trace[j].idx = i

\* C2: a finished stop_resources run dispatched the configs in the reverse
\* of the order start_resources dispatches them for the same workspace and
\* selection.
C2_StopReversesStart ==
    (op = "stop" /\ RunEnded) =>
        DispatchOrder = Reverse(DeployOrder(ws, target_env, target_config))

\* C3: in every state of a run 0 <= completed <= attempted, attempted is
\* the length of the filtered sequence, and the completed counter was
\* incremented at most once per config (it counts the adapter calls that
\* returned, at most one per position of the sequence).
C3_CountersBounded ==
    filter_ran =>
        /\ 0 <= num_configs_deployed
        /\ num_configs_deployed <= num_configs_to_deploy
        /\ num_configs_to_deploy = Len(configs)
        /\ num_configs_deployed = Cardinality(EventsOf("return"))
        /\ \A i \in 1..Len(configs) :
               Cardinality({ j \in EventsOf("return") : trace[j].idx = i }) <= 1

C3_Witness ==
    /\ pc = "loop"
    /\ num_configs_to_deploy >= 2
    /\ num_configs_deployed >= 1
    /\ num_configs_deployed < num_configs_to_deploy

\* C4: in each operation a config of a class without adapter is never
\* handed to an adapter and never raises, counts in attempted and not in
\* completed, and a run over it that ends prints the failure message and
\* no success banner, with completed < attempted.
C4_UnknownClassSkipped ==
    /\ \A j \in 1..Len(trace) : Registered(configs[trace[j].idx])
    /\ filter_ran =>
        /\ num_configs_to_deploy = Len(configs)
        /\ num_configs_deployed <=
               Cardinality({ i \in 1..Len(configs) : Registered(configs[i]) })
    /\ (RunEnded /\ \E i \in 1..Len(configs) : ~Registered(configs[i])) =>
        /\ num_configs_deployed < num_configs_to_deploy
        /\ Printed("FAILED")
        /\ ~Printed("SUCCESS")

C4_Witness ==
    /\ op = "patch"
    /\ RunEnded
    /\ Len(configs) >= 2
    /\ ~Registered(configs[1])
    /\ Registered(configs[2])
    /\ num_configs_deployed = 1
    /\ Printed("FAILED")

\* C5: with dry_run the success banner is never printed; the banner is
\* printed only by a run that ended with dry_run false and
\* completed = attempted.
C5_NoSuccessOnDryRun ==
    /\ dry_run => ~Printed("SUCCESS")
    /\ Printed("SUCCESS") =>
        /\ RunEnded
        /\ ~dry_run
        /\ num_configs_deployed = num_configs_to_deploy

C5_Witness ==
    /\ RunEnded
    /\ dry_run
    /\ num_configs_to_deploy >= 1
    /\ num_configs_deployed = num_configs_to_deploy
    /\ Printed("SUMMARY")

\* C6: when the resources file does not exist, each operation reports the
\* error and returns with the workspace not loaded, the local environment
\* not set, the filter not run, no adapter called, and neither summary nor
\* banner nor failure message printed.
C6_MissingFileFailsFast ==
    (op # None /\ ~file_exists) =>
        /\ pc = "returned"
        /\ out = <<"FILE_DOES_NOT_EXIST">>
        /\ ~ws_loaded
        /\ ~env_set
        /\ ~filter_ran
        /\ trace = <<>>

C6_Witness ==
    /\ op = "stop"
    /\ ~file_exists
    /\ pc = "returned"
    /\ Len(ws) >= 1
    /\ Printed("FILE_DOES_NOT_EXIST")

\* C7: a run that ends (reaches the lines after the loop) over configs
\* that all have an adapter, every call having returned, has
\* completed = attempted and prints no failure message; the failure
\* message is printed exactly by the runs that end with
\* completed # attempted.
C7_FailureIffMismatch ==
    /\ (RunEnded /\ EventsOf("raise") = {}
          /\ \A i \in 1..Len(configs) : Registered(configs[i])) =>
        /\ num_configs_deployed = num_configs_to_deploy
        /\ ~Printed("FAILED")
    /\ RunEnded =>
        (Printed("FAILED") <=> num_configs_deployed # num_configs_to_deploy)
    /\ Printed("FAILED") => RunEnded

C7_Witness ==
    /\ RunEnded
    /\ Len(configs) >= 2
    /\ \A i \in 1..Len(configs) : Registered(configs[i])
    /\ num_configs_deployed = num_configs_to_deploy
    /\ ~Printed("FAILED")

\* C8: adapter calls are made one at a time in the order of the filtered
\* sequence: a call is followed at once by its own return or raise (or is
\* the one in progress), calls go to strictly increasing positions of the
\* sequence (so no config is dispatched twice), every position before the
\* loop position is settled and none after it was touched.
C8_Sequential ==
    /\ \A j \in EventsOf("call") :
           \/ (j = Len(trace) /\ pc = "call" /\ trace[j].idx = idx)
           \/ /\ j < Len(trace)
              /\ trace[j + 1].ev \in {"return", "raise"}
              /\ trace[j + 1].idx = trace[j].idx
    /\ \A j \in EventsOf("return") \cup EventsOf("raise") :
           /\ j > 1
           /\ trace[j - 1].ev = "call"
           /\ trace[j - 1].idx = trace[j].idx
    /\ \A j, k \in EventsOf("call") : j < k => trace[j].idx < trace[k].idx
    /\ \A j \in 1..Len(trace) :
           /\ trace[j].idx \in 1..Len(configs)
           /\ trace[j].idx <= idx
           /\ trace[j].config = configs[trace[j].idx].name
    /\ \A j \in EventsOf("raise") : j = Len(trace) /\ pc = "raised"
    /\ pc = "call" => (trace # <<>> /\ trace[Len(trace)].ev = "call")
    /\ RunEnded =>
           DispatchOrder = [j \in 1..Len(SelectSeq(configs, Registered)) |->
                               SelectSeq(configs, Registered)[j].name]

C8_Witness ==
    /\ pc = "call"
    /\ idx = 2
    /\ Cardinality(EventsOf("call")) = 2
    /\ Cardinality(EventsOf("return")) = 1

\* C9: a run whose filter yields the empty sequence calls no adapter, has
\* attempted = 0 and completed = 0, never raises, and ends without error or
\* failure message.
C9_EmptyIsNoOp ==
    (filter_ran /\ configs = <<>>) =>
        /\ trace = <<>>
        /\ num_configs_to_deploy = 0
        /\ num_configs_deployed = 0
        /\ pc \in {"loop", "returned"}
        /\ ~Printed("FAILED")
        /\ ~Printed("FILE_DOES_NOT_EXIST")
        /\ pc = "returned" => Printed("SUMMARY")

C9_Witness ==
    /\ RunEnded
    /\ Len(ws) >= 1
    /\ configs = <<>>
    /\ Printed("SUMMARY")

\* The adapter function of an operation for a config class.
ExpectedAdapter(o, cls) ==
    CASE o = "start" /\ cls = "DockerConfig" -> "deploy_docker_config"
      [] o = "start" /\ cls = "K8sConfig" -> "deploy_k8s_config"
      [] o = "start" /\ cls = "AwsConfig" -> "deploy_aws_config"
      [] o = "stop" /\ cls = "DockerConfig" -> "shutdown_docker_config"
      [] o = "stop" /\ cls = "K8sConfig" -> "shutdown_k8s_config"
      [] o = "stop" /\ cls = "AwsConfig" -> "shutdown_aws_config"
      [] o = "patch" /\ cls = "DockerConfig" -> "patch_docker_config"
      [] o = "patch" /\ cls = "K8sConfig" -> "patch_k8s_config"
      [] o = "patch" /\ cls = "AwsConfig" -> "patch_aws_config"
      [] OTHER -> "no_adapter"

\* C11: every adapter call of a run goes to the function of the running
\* operation for the class of the config it is given, is given the config
\* the loop is at, and is given the run's target_name, target_type,
\* target_group, dry_run and auto_confirm as name_filter, type_filter,
\* app_filter, dry_run and auto_confirm.
C11_RoutedWithRunArguments ==
    \A j \in EventsOf("call") :
        LET e == trace[j]
            c == configs[e.idx]
        IN  /\ e.callee = ExpectedAdapter(op, c.cls)
            /\ e.config = c.name
            /\ e.args.name_filter = target_name
            /\ e.args.type_filter = target_type
            /\ e.args.app_filter = target_group
            /\ e.args.dry_run = dry_run
            /\ e.args.auto_confirm = auto_confirm

C11_Witness ==
    /\ op = "stop"
    /\ RunEnded
    /\ target_name = "name"
    /\ target_type = "type"
    /\ target_group = "group"
    /\ auto_confirm
    /\ Cardinality(EventsOf("call")) = 2
    /\ configs[1].cls = "AwsConfig"
    /\ configs[2].cls = "K8sConfig"

\* ------------------------------------------------ log_conversation_event
\* invalid_response(r): the status of the response is not a success.
invalid_response(resp) == resp.invalid

\* The body of the try block once the POST returned: "raise" when a
\* statement of it raises, else the value it returns.
TryBody(resp) ==
    IF invalid_response(resp) THEN None
    ELSE IF resp.body = "not_json" THEN "raise"
    ELSE IF resp.body = "null" THEN None
    ELSE IF resp.body = "bad_schema" THEN "raise"
    ELSE "ConversationEventCreateResopnse"

\* The try block without its except clause.
ExceptException_missing(result) == result

\* except Exception: the exception is logged at debug level and the
\* function falls through to its final return None.
ExceptException(result) == IF result = "raise" THEN None ELSE result

\* not phi_cli_settings.api_enabled: the function returns None at once.
ApiDisabled == ~api_enabled

\* The call, up to the POST: the api_enabled test and the client context.
log_conversation_event(e) ==
    /\ conv_pc = "idle"
    /\ n_calls < MaxCalls
    /\ event' = e
    /\ IF ApiDisabled
       THEN /\ conv_ret' = None
            /\ conv_pc' = "returned"
            /\ UNCHANGED client_open
       ELSE /\ client_open' = TRUE
            /\ conv_pc' = "client"
            /\ UNCHANGED conv_ret
    /\ UNCHANGED <<api_enabled, requests, r, n_calls>>
    /\ UNCHANGED opVars

\* api_client.post raises: the except clause handles it, the client context
\* is left and None is returned.
PostRaises ==
    /\ conv_pc = "client"
    /\ requests' = Append(requests, event)
    /\ LET result == ExceptException("raise")
       IN  IF result = "raise"
           THEN /\ conv_pc' = "raised"
                /\ UNCHANGED conv_ret
           ELSE /\ conv_pc' = "returned"
                /\ conv_ret' = result
    /\ client_open' = FALSE
    /\ UNCHANGED <<api_enabled, event, r, n_calls>>
    /\ UNCHANGED opVars

\* api_client.post returns a Response.
PostReturns(resp) ==
    /\ conv_pc = "client"
    /\ requests' = Append(requests, event)
    /\ r' = resp
    /\ conv_pc' = "posted"
    /\ UNCHANGED <<api_enabled, event, client_open, conv_ret, n_calls>>
    /\ UNCHANGED opVars

\* The rest of the try block, the except clause and the final return.
HandleResponse ==
    /\ conv_pc = "posted"
    /\ LET result == ExceptException(TryBody(r))
       IN  IF result = "raise"
           THEN /\ conv_pc' = "raised"
                /\ UNCHANGED conv_ret
           ELSE /\ conv_pc' = "returned"
                /\ conv_ret' = result
    /\ client_open' = FALSE
    /\ UNCHANGED <<api_enabled, event, requests, r, n_calls>>
    /\ UNCHANGED opVars

\* The caller goes on after the call returned.
CallerContinues ==
    /\ conv_pc = "returned"
    /\ conv_pc' = "idle"
    /\ event' = NoEvent
    /\ r' = NoResponse
    /\ conv_ret' = None
    /\ n_calls' = n_calls + 1
    /\ UNCHANGED <<api_enabled, client_open, requests>>
    /\ UNCHANGED opVars

ConvInit ==
    /\ ws = <<>>
    /\ file_exists = FALSE
    /\ OpIdle
    /\ api_enabled \in BOOLEAN
    /\ ConvIdle

ConvNext ==
    \/ \E e \in Events : log_conversation_event(e)
    \/ PostRaises
    \/ \E resp \in Responses : PostReturns(resp)
    \/ HandleResponse
    \/ CallerContinues

ConvSpec == ConvInit /\ [][ConvNext]_vars

\* --------------------------------------- claims on log_conversation_event
\* C10: no exception leaves log_conversation_event; with api_enabled false
\* it returns None with no client opened and no request sent; it returns
\* None when the POST raised, the response is invalid, the body is not
\* JSON, is null or fails validation; it returns a value other than None
\* only when the POST returned a valid response whose body validated.
C10_LoggingNeverFails ==
    /\ conv_pc # "raised"
    /\ ~api_enabled => (requests = <<>> /\ ~client_open /\ conv_ret = None)
    /\ conv_pc = "returned" =>
        /\ ~client_open
        /\ conv_ret # None <=>
               (api_enabled /\ r # NoResponse /\ ~r.invalid /\ r.body = "valid")
    /\ conv_pc # "returned" => conv_ret = None

C10_Witness ==
    /\ conv_pc = "returned"
    /\ api_enabled
    /\ r # NoResponse
    /\ ~r.invalid
    /\ r.body = "bad_schema"
    /\ conv_ret = None
    /\ Len(requests) = 2
====
